---- MODULE Spec2Model ----
(***************************************************************************)
(* Model of bin/run_probe_exp.py: the probe-experiment pipeline.           *)
(*                                                                         *)
(* The program is a chain of functions (load_task_config, load_utterances, *)
(* add_context, _get_feats_targets, get_feats_targets, main).  Each one is *)
(* modelled as a small state machine over its own group of variables, with *)
(* its own specification whose Init draws the function's inputs from       *)
(* bounded sets:                                                           *)
(*   SpecCtx      add_context                                              *)
(*   SpecLabel    the target-marking part of _get_feats_targets            *)
(*   SpecWeights  the class-weight computation in main                     *)
(*   SpecCat      load_utterances                                          *)
(*   SpecCfg      load_task_config                                         *)
(*   SpecExtract  get_feats_targets (the joblib fan-out and the join)      *)
(*   Spec         main (training loop, test loop, scoring loop)            *)
(* A group that a specification does not use stays at its idle value.      *)
(*                                                                         *)
(* Times are integers (ticks); a frame step is a whole number of ticks.    *)
(* Arrays are records [d |-> columns, rows |-> sequence of rows].          *)
(***************************************************************************)
EXTENDS Integers, Sequences, FiniteSets, TLC

VARIABLES
  \* add_context
  ac_in,        \* the feats argument
  ac_win,       \* the win_size argument
  ac_pc,        \* position in add_context
  ac_feats,     \* the local variable feats
  \* _get_feats_targets (labelling part)
  lab_rows,     \* rows of the .lab file: <<onset, offset, label>>
  lab_n,        \* len(feats)
  lab_step,     \* step
  lab_pc,       \* position in _get_feats_targets
  lab_tl,       \* speech_t after support(): sequence of <<start, end>>
  lab_i,        \* number of segments of speech_t already processed
  lab_targets,  \* targets (0-based frame k is lab_targets[k+1])
  \* main: class weights of a training partition
  w_targets,    \* targets of the training partition
  w_pc,         \* position in the weight computation
  w_pos_freq,   \* pos_freq
  w_weights,    \* weights
  \* load_utterances
  cat_lines,    \* lines of the URI-list file
  cat_feats,    \* URIs u for which feats_dir/u.npy exists
  cat_phones,   \* URIs u for which phones_dir/u.lab exists
  cat_pc,       \* position in load_utterances
  cat_uris,     \* the set uris
  cat_todo,     \* URIs the for loop has not visited yet
  cat_utts,     \* the list utterances (URIs, in append order)
  \* load_task_config
  cfg_doc,      \* the parsed YAML document
  cfg_pc,       \* position in load_task_config (and in main after it)
  cfg_err,      \* which check raised ConfigError
  cfg_io,       \* data files opened or probed so far: <<kind, partition>>
  cfg_train,    \* train_dsets built so far (names)
  cfg_test,     \* test_dsets built so far (names)
  \* get_feats_targets
  ex_utts,      \* the utterances argument
  ex_step,      \* step
  ex_ctx,       \* context_size
  ex_njobs,     \* n_jobs
  ex_pc,        \* position in get_feats_targets
  ex_next,      \* index of the next job joblib dispatches
  ex_running,   \* jobs in a worker
  ex_res,       \* res, by job index: what Parallel()(...) will return
  ex_tries,     \* how many times each job was started
  ex_order,     \* jobs in the order they finished
  ex_feats,     \* the returned feature matrix
  ex_targets,   \* the returned target vector
  ex_call,      \* number of calls of get_feats_targets so far
  ex_failed,    \* the call in which a job failed, 0 if none did
  \* main
  m_train,      \* names of train_dsets, in order
  m_test,       \* names of test_dsets, in order
  m_njobs,      \* args.n_jobs
  m_ctx,        \* task.context_size
  m_pc,         \* position in main
  m_i,          \* partitions of the current loop already processed
  m_models,     \* keys of models
  m_test_data,  \* keys of test_data, in insertion order
  m_sorted,     \* sorted(models)
  m_si,         \* position of the outer scoring loop
  m_sj,         \* position of the inner scoring loop
  m_records,    \* records: <<train, test>> of each score record
  m_printed     \* print(scores_df) has run

acVars  == <<ac_in, ac_win, ac_pc, ac_feats>>
labVars == <<lab_rows, lab_n, lab_step, lab_pc, lab_tl, lab_i, lab_targets>>
wVars   == <<w_targets, w_pc, w_pos_freq, w_weights>>
catVars == <<cat_lines, cat_feats, cat_phones, cat_pc, cat_uris, cat_todo, cat_utts>>
cfgVars == <<cfg_doc, cfg_pc, cfg_err, cfg_io, cfg_train, cfg_test>>
exVars  == <<ex_utts, ex_step, ex_ctx, ex_njobs, ex_pc, ex_next, ex_running,
             ex_res, ex_tries, ex_order, ex_feats, ex_targets, ex_call, ex_failed>>
mVars   == <<m_train, m_test, m_njobs, m_ctx, m_pc, m_i, m_models, m_test_data,
             m_sorted, m_si, m_sj, m_records, m_printed>>
vars    == <<acVars, labVars, wVars, catVars, cfgVars, exVars, mVars>>

\* What the actions of one group leave alone.
notAc  == <<labVars, wVars, catVars, cfgVars, exVars, mVars>>
notLab == <<acVars, wVars, catVars, cfgVars, exVars, mVars>>
notW   == <<acVars, labVars, catVars, cfgVars, exVars, mVars>>
notCat == <<acVars, labVars, wVars, cfgVars, exVars, mVars>>
notCfg == <<acVars, labVars, wVars, catVars, exVars, mVars>>
notEx  == <<acVars, labVars, wVars, catVars, cfgVars, mVars>>
notExM == <<acVars, labVars, wVars, catVars, cfgVars>>

----------------------------------------------------------------------------
(* Bounds of the model *)
MaxFrames == 3     \* rows of an add_context input
MaxDim    == 2     \* columns of an add_context input
MaxWin    == 2     \* context half-size
MaxTime   == 4     \* largest segment boundary, in ticks
MaxRows   == 2     \* rows of a .lab file
MaxTargets == 5    \* frames of a training partition in the weight computation
MaxLines  == 2     \* lines of a URI-list file
MaxUtts   == 2     \* utterances of a partition
MaxUttFrames == 2  \* frames of an utterance of a partition
MaxJobs   == 2     \* n_jobs

FeatVals == {0, 1}
Steps    == {1, 2}             \* frame step, in ticks
Labels   == {"aa", "sil"}      \* one target phone and one non-target phone
TARGET_LABELS == {"aa"}
CtxSizes == {0, 1, 2}           \* context_size of a run

----------------------------------------------------------------------------
(* General helpers *)
Clamp(x, lo, hi) == IF x < lo THEN lo ELSE IF x > hi THEN hi ELSE x

Max2(a, b) == IF a >= b THEN a ELSE b

Min2(a, b) == IF a <= b THEN a ELSE b

SeqsUpTo(S, k) == UNION {[1..m -> S] : m \in 0..k}

Arrays(n, d) == {[d |-> d, rows |-> r] : r \in [1..n -> [1..d -> FeatVals]]}

NRows(a) == Len(a.rows)

----------------------------------------------------------------------------
(* add_context *)

\* np.pad(feats, [[w, w], [0, 0]], mode='edge') raises ValueError on an array
\* with no rows ("can't extend empty axis 0 using modes other than ...").
NpPadRaises(a, w) == NRows(a) = 0 /\ w > 0

\* A padding bug: pad with zero rows instead of edge rows.
NpPadZeros(a, w) ==
  [d |-> a.d,
   rows |-> [i \in 1..(NRows(a) + 2 * w) |->
               IF i - w < 1 \/ i - w > NRows(a)
                 THEN [c \in 1..a.d |-> 0]
                 ELSE a.rows[i - w]]]

\* np.pad(..., mode='edge'): w copies of the first row before, of the last after.
NpPad(a, w) ==
  [d |-> a.d,
   rows |-> [i \in 1..(NRows(a) + 2 * w) |-> a.rows[Clamp(i - w, 1, NRows(a))]]]

\* np.roll(feats, ind, axis=0): row i of the result is row (i - ind) mod M.
NpRoll(a, ind) ==
  LET M == NRows(a)
  IN  [d |-> a.d,
       rows |-> [i \in 1..M |-> a.rows[((i - 1 - ind) % M) + 1]]]

\* np.arange(-win_size, win_size+1), as a sequence.
Inds(w) == [k \in 1..(2 * w + 1) |-> k - w - 1]

RECURSIVE ConcatRow(_, _, _)
ConcatRow(arrs, i, k) ==
  IF k > Len(arrs) THEN <<>>
  ELSE arrs[k].rows[i] \o ConcatRow(arrs, i, k + 1)

RECURSIVE SumDims(_, _)
SumDims(arrs, k) == IF k > Len(arrs) THEN 0 ELSE arrs[k].d + SumDims(arrs, k + 1)

\* np.concatenate(arrs, axis=1) of arrays with the same number of rows.
ConcatAxis1(arrs) ==
  [d |-> SumDims(arrs, 1),
   rows |-> [i \in 1..NRows(arrs[1]) |-> ConcatRow(arrs, i, 1)]]

\* feats[lo:-hi, :] for 0 <= lo and 0 < hi.
SliceRows(a, lo, hi) ==
  [d |-> a.d, rows |-> SubSeq(a.rows, lo + 1, NRows(a) - hi)]

RollConcat(a, w) == ConcatAxis1([k \in 1..(2 * w + 1) |-> NpRoll(a, Inds(w)[k])])

\* A variant of add_context that forgets to trim the padding.
AddContextUntrimmed(a, w) ==
  IF w <= 0 THEN a ELSE RollConcat(NpPad(a, w), w)

\* The value add_context returns when it does not raise.
AddContext(a, w) ==
  IF w <= 0 THEN a ELSE SliceRows(RollConcat(NpPad(a, w), w), w, w)

AcInit ==
  /\ ac_win \in 0..MaxWin
  /\ ac_in \in UNION {Arrays(n, d) : n \in 0..MaxFrames, d \in 1..MaxDim}
  /\ ac_pc = "call"
  /\ ac_feats = ac_in

AcIdle ==
  /\ ac_in = [d |-> 0, rows |-> <<>>]
  /\ ac_win = 0
  /\ ac_pc = "idle"
  /\ ac_feats = ac_in

\* if win_size <= 0: return feats
AcReturnInput ==
  /\ ac_pc = "call"
  /\ ac_win <= 0
  /\ ac_pc' = "returned"
  /\ UNCHANGED <<ac_in, ac_win, ac_feats>> /\ UNCHANGED notAc

\* feats = np.pad(...)
AcPad ==
  /\ ac_pc = "call"
  /\ ac_win > 0
  /\ IF NpPadRaises(ac_feats, ac_win)
       THEN /\ ac_pc' = "raised"
            /\ UNCHANGED ac_feats
       ELSE /\ ac_pc' = "padded"
            /\ ac_feats' = NpPad(ac_feats, ac_win)
  /\ UNCHANGED <<ac_in, ac_win>> /\ UNCHANGED notAc

\* feats = np.concatenate([np.roll(feats, ind, axis=0) for ind in inds], axis=1)
AcRollConcat ==
  /\ ac_pc = "padded"
  /\ ac_pc' = "rolled"
  /\ ac_feats' = RollConcat(ac_feats, ac_win)
  /\ UNCHANGED <<ac_in, ac_win>> /\ UNCHANGED notAc

\* feats = feats[win_size:-win_size, :]; return feats
AcTrim ==
  /\ ac_pc = "rolled"
  /\ ac_pc' = "returned"
  /\ ac_feats' = SliceRows(ac_feats, ac_win, ac_win)
  /\ UNCHANGED <<ac_in, ac_win>> /\ UNCHANGED notAc

----------------------------------------------------------------------------
(* _get_feats_targets: from the .lab rows to the target vector *)

RowSet == {<<on, off, lab>> : on \in 0..MaxTime, off \in 0..MaxTime, lab \in Labels}

\* Rows of a .lab file: onset <= offset.
LabRows == {r \in RowSet : r[1] <= r[2]}

\* segs[segs.label.isin(target_labels)], then Timeline([...]): a Timeline is a
\* sorted set of segments and drops the empty ones (end - start <= 0).
TimelineOf(rows, target_labels) ==
  {<<rows[k][1], rows[k][2]>> : k \in {j \in 1..Len(rows) :
       rows[j][3] \in target_labels /\ rows[j][2] - rows[j][1] > 0}}

SegLess(a, b) == a[1] < b[1] \/ (a[1] = b[1] /\ a[2] < b[2])

FirstSeg(S) == CHOOSE a \in S : \A b \in S \ {a} : SegLess(a, b)

RECURSIVE SortedSegs(_)
SortedSegs(S) ==
  IF S = {} THEN <<>> ELSE <<FirstSeg(S)>> \o SortedSegs(S \ {FirstSeg(S)})

\* Timeline.support(): scan the sorted segments, extend the current one while
\* the next overlaps or touches it, else emit it and start a new one.
RECURSIVE SupportIter(_, _, _)
SupportIter(segs, k, cur) ==
  IF k > Len(segs) THEN <<cur>>
  ELSE IF segs[k][1] <= cur[2]
         THEN SupportIter(segs, k + 1, <<cur[1], Max2(cur[2], segs[k][2])>>)
         ELSE <<cur>> \o SupportIter(segs, k + 1, segs[k])

Support(S) ==
  LET segs == SortedSegs(S)
  IN  IF segs = <<>> THEN <<>> ELSE SupportIter(segs, 2, segs[1])

\* times = np.arange(len(feats))*step; np.searchsorted(times, v) (side 'left'):
\* the number of frame times strictly below v.
SearchSorted(n, step, v) == Cardinality({i \in 0..(n - 1) : i * step < v})

\* An off-by-one variant: targets[bi:ei] = 1.
MarkRangeExclusive(targets, bi, ei) ==
  [k \in 1..Len(targets) |-> IF bi <= k - 1 /\ k - 1 < ei THEN 1 ELSE targets[k]]

\* targets[bi:ei+1] = 1 (a slice past the end is clipped).
MarkRange(targets, bi, ei) ==
  [k \in 1..Len(targets) |-> IF bi <= k - 1 /\ k - 1 < ei + 1 THEN 1 ELSE targets[k]]

RECURSIVE MarkAll(_, _, _, _, _)
MarkAll(targets, tl, k, n, step) ==
  IF k > Len(tl) THEN targets
  ELSE MarkAll(MarkRange(targets, SearchSorted(n, step, tl[k][1]),
                                  SearchSorted(n, step, tl[k][2])),
               tl, k + 1, n, step)

\* The targets _get_feats_targets returns for n frames.
Targets(rows, n, step, target_labels) ==
  MarkAll([k \in 1..n |-> 0], Support(TimelineOf(rows, target_labels)), 1, n, step)

\* A .lab file lists its segments in time order (by onset); they may overlap,
\* touch, or leave gaps.
LabFiles ==
  {f \in SeqsUpTo(LabRows, MaxRows) :
     \A k \in 1..(Len(f) - 1) : f[k][1] <= f[k + 1][1]}

LabInit ==
  /\ lab_rows \in LabFiles
  /\ lab_n \in 0..(MaxTime + 1)
  /\ lab_step \in Steps
  /\ lab_pc = "call"
  /\ lab_tl = <<>>
  /\ lab_i = 0
  /\ lab_targets = <<>>

LabIdle ==
  /\ lab_rows = <<>>
  /\ lab_n = 0
  /\ lab_step = 1
  /\ lab_pc = "idle"
  /\ lab_tl = <<>>
  /\ lab_i = 0
  /\ lab_targets = <<>>

\* read_csv, the isin filter, Timeline(...).support(), np.zeros_like(times)
LabTimeline ==
  /\ lab_pc = "call"
  /\ lab_pc' = "loop"
  /\ lab_tl' = Support(TimelineOf(lab_rows, TARGET_LABELS))
  /\ lab_i' = 0
  /\ lab_targets' = [k \in 1..lab_n |-> 0]
  /\ UNCHANGED <<lab_rows, lab_n, lab_step>> /\ UNCHANGED notLab

\* one iteration of "for seg in speech_t"
LabMark ==
  /\ lab_pc = "loop"
  /\ lab_i < Len(lab_tl)
  /\ LET seg == lab_tl[lab_i + 1]
         bi  == SearchSorted(lab_n, lab_step, seg[1])
         ei  == SearchSorted(lab_n, lab_step, seg[2])
     IN  lab_targets' = MarkRange(lab_targets, bi, ei)
  /\ lab_i' = lab_i + 1
  /\ UNCHANGED <<lab_rows, lab_n, lab_step, lab_pc, lab_tl>> /\ UNCHANGED notLab

\* return feats, targets
LabReturn ==
  /\ lab_pc = "loop"
  /\ lab_i = Len(lab_tl)
  /\ lab_pc' = "returned"
  /\ UNCHANGED <<lab_rows, lab_n, lab_step, lab_tl, lab_i, lab_targets>> /\ UNCHANGED notLab

----------------------------------------------------------------------------
(* main: class weights (lines 339-342) *)

\* A float is a nonnegative rational n/d in lowest terms, +inf or NaN.  The
\* arithmetic is exact: float32 rounding is not modelled, division by zero and
\* the propagation of inf and NaN are.
RECURSIVE GCD(_, _)
GCD(a, b) == IF b = 0 THEN a ELSE GCD(b, a % b)

Num(n, d) == [k |-> "num", n |-> n \div GCD(n, d), d |-> d \div GCD(n, d)]

Inf == [k |-> "inf", n |-> 0, d |-> 1]

NaN == [k |-> "nan", n |-> 0, d |-> 1]

RECURSIVE SumSeq(_)
SumSeq(s) == IF s = <<>> THEN 0 ELSE Head(s) + SumSeq(Tail(s))

\* targets.mean(): NaN for an empty array.
FMean(targets) == IF Len(targets) = 0 THEN NaN ELSE Num(SumSeq(targets), Len(targets))

\* 1 - x, for 0 <= x <= 1
FOneMinus(x) == IF x.k = "num" THEN Num(x.d - x.n, x.d) ELSE NaN

\* 1 / x
FRecip(x) ==
  CASE x.k = "nan" -> NaN
    [] x.k = "inf" -> Num(0, 1)
    [] x.k = "num" /\ x.n = 0 -> Inf
    [] OTHER -> Num(x.d, x.n)

FAdd(x, y) ==
  CASE x.k = "nan" \/ y.k = "nan" -> NaN
    [] x.k = "inf" \/ y.k = "inf" -> Inf
    [] OTHER -> Num(x.n * y.d + y.n * x.d, x.d * y.d)

FDiv(x, y) ==
  CASE x.k = "nan" \/ y.k = "nan" -> NaN
    [] x.k = "inf" /\ y.k = "inf" -> NaN
    [] x.k = "inf" -> Inf
    [] y.k = "inf" -> Num(0, 1)
    [] y.n = 0 -> IF x.n = 0 THEN NaN ELSE Inf
    [] OTHER -> Num(x.n * y.d, x.d * y.n)

FLess(x, y) == x.k = "num" /\ y.k = "num" /\ x.n * y.d < y.n * x.d

WInit ==
  /\ w_targets \in SeqsUpTo({0, 1}, MaxTargets) \ {<<>>}
  /\ w_pc = "call"
  /\ w_pos_freq = NaN
  /\ w_weights = <<>>

WIdle ==
  /\ w_targets = <<>>
  /\ w_pc = "idle"
  /\ w_pos_freq = NaN
  /\ w_weights = <<>>

\* pos_freq = targets.mean()
WMean ==
  /\ w_pc = "call"
  /\ w_pc' = "mean"
  /\ w_pos_freq' = FMean(w_targets)
  /\ UNCHANGED <<w_targets, w_weights>> /\ UNCHANGED notW

\* weights = np.array([1-pos_freq, pos_freq], dtype=np.float32)
WArray ==
  /\ w_pc = "mean"
  /\ w_pc' = "array"
  /\ w_weights' = <<FOneMinus(w_pos_freq), w_pos_freq>>
  /\ UNCHANGED <<w_targets, w_pos_freq>> /\ UNCHANGED notW

\* weights = torch.from_numpy(1/weights)
WInvert ==
  /\ w_pc = "array"
  /\ w_pc' = "inverted"
  /\ w_weights' = <<FRecip(w_weights[1]), FRecip(w_weights[2])>>
  /\ UNCHANGED <<w_targets, w_pos_freq>> /\ UNCHANGED notW

\* weights /= weights.sum()
WNormalise ==
  /\ w_pc = "inverted"
  /\ w_pc' = "done"
  /\ LET total == FAdd(w_weights[1], w_weights[2])
     IN  w_weights' = <<FDiv(w_weights[1], total), FDiv(w_weights[2], total)>>
  /\ UNCHANGED <<w_targets, w_pos_freq>> /\ UNCHANGED notW

----------------------------------------------------------------------------
(* load_utterances *)

\* A line and a URI are sequences of characters.
Whitespace == {" ", "\n"}

CatLineSet ==
  { <<"\n">>, <<"a", "\n">>, <<"a", " ", "\n">>, <<" ", "a", "\n">>, <<"b">> }

RECURSIVE LStrip(_)
LStrip(s) == IF s # <<>> /\ Head(s) \in Whitespace THEN LStrip(Tail(s)) ELSE s

RECURSIVE RStrip(_)
RStrip(s) ==
  IF s # <<>> /\ s[Len(s)] \in Whitespace THEN RStrip(SubSeq(s, 1, Len(s) - 1)) ELSE s

\* line.strip()
Strip(s) == RStrip(LStrip(s))

CatUriUniverse == {Strip(l) : l \in CatLineSet}

\* Path(dir, uri + ext).exists()
PathExists(dir, uri) == uri \in dir

\* A wrong test: skip only when both files are missing.
SkipsWhenBothMissing(uri, feats_dir, phones_dir) ==
  ~PathExists(feats_dir, uri) /\ ~PathExists(phones_dir, uri)

\* if not feats_path.exists() or not phones_path.exists(): continue
Skips(uri, feats_dir, phones_dir) ==
  ~PathExists(feats_dir, uri) \/ ~PathExists(phones_dir, uri)

CatInit ==
  /\ cat_lines \in SeqsUpTo(CatLineSet, MaxLines)
  /\ cat_feats \in SUBSET CatUriUniverse
  /\ cat_phones \in SUBSET CatUriUniverse
  /\ cat_pc = "call"
  /\ cat_uris = {}
  /\ cat_todo = {}
  /\ cat_utts = <<>>

CatIdle ==
  /\ cat_lines = <<>>
  /\ cat_feats = {}
  /\ cat_phones = {}
  /\ cat_pc = "idle"
  /\ cat_uris = {}
  /\ cat_todo = {}
  /\ cat_utts = <<>>

\* uris = {line.strip() for line in f}; utterances = []
CatReadUris ==
  /\ cat_pc = "call"
  /\ cat_pc' = "loop"
  /\ cat_uris' = {Strip(cat_lines[k]) : k \in 1..Len(cat_lines)}
  /\ cat_todo' = cat_uris'
  /\ cat_utts' = <<>>
  /\ UNCHANGED <<cat_lines, cat_feats, cat_phones>> /\ UNCHANGED notCat

\* One iteration of "for uri in uris": a set is iterated in no particular order.
CatVisit ==
  /\ cat_pc = "loop"
  /\ \E uri \in cat_todo :
       /\ cat_todo' = cat_todo \ {uri}
       /\ cat_utts' = IF Skips(uri, cat_feats, cat_phones)
                        THEN cat_utts
                        ELSE Append(cat_utts, uri)
  /\ UNCHANGED <<cat_lines, cat_feats, cat_phones, cat_pc, cat_uris>>
  /\ UNCHANGED notCat

\* return utterances
CatReturn ==
  /\ cat_pc = "loop"
  /\ cat_todo = {}
  /\ cat_pc' = "returned"
  /\ UNCHANGED <<cat_lines, cat_feats, cat_phones, cat_uris, cat_todo, cat_utts>>
  /\ UNCHANGED notCat

----------------------------------------------------------------------------
(* load_task_config *)

VALID_CLASSIFIER_NAMES == {"logistic", "max_margin", "nnet"}

VALID_TASK_NAMES == {"sad", "vowel", "sonorant", "fricative"}

Absent == "<absent>"

\* Values of the classifier and task keys in the documents the model draws.
ClassifierVals == VALID_CLASSIFIER_NAMES \cup {Absent, "linear", "svm"}

TaskVals == VALID_TASK_NAMES \cup {Absent, "phone"}

\* train_data and test_data: mappings, iterated in document order.
TrainNameSeqs == {<<>>, <<"A">>, <<"B">>, <<"A", "B">>, <<"B", "A">>}

TestNameSeqs == {<<>>, <<"C">>, <<"A">>, <<"C", "A">>, <<"A", "C">>}

\* config.get(key, default)
ConfigGet(val, default) == IF val = Absent THEN default ELSE val

\* A missing check: every classifier name is accepted.
AcceptsAnyClassifier(classifier) == FALSE

\* if classifier not in VALID_CLASSIFIER_NAMES: raise ConfigError
ClassifierRejected(classifier) == classifier \notin VALID_CLASSIFIER_NAMES

\* if task_name not in VALID_TASK_NAMES: raise ConfigError
TaskRejected(task_name) == task_name \notin VALID_TASK_NAMES

\* What load_utterances touches for one partition: it opens the URI list,
\* probes a feature path for a URI and, when that exists, a label path.
DsetIO ==
  { {"uris"}, {"uris", "feats"}, {"uris", "feats", "phones"} }

CfgInit ==
  /\ cfg_doc \in [classifier : ClassifierVals, task : TaskVals,
                  train_data : TrainNameSeqs, test_data : TestNameSeqs]
  /\ cfg_pc = "call"
  /\ cfg_err = "none"
  /\ cfg_io = {}
  /\ cfg_train = <<>>
  /\ cfg_test = <<>>

CfgIdle ==
  /\ cfg_doc = [classifier |-> Absent, task |-> Absent,
                train_data |-> <<>>, test_data |-> <<>>]
  /\ cfg_pc = "idle"
  /\ cfg_err = "none"
  /\ cfg_io = {}
  /\ cfg_train = <<>>
  /\ cfg_test = <<>>

\* open(fn), yaml.load, batch_size and context_size
CfgParse ==
  /\ cfg_pc = "call"
  /\ cfg_pc' = "parsed"
  /\ UNCHANGED <<cfg_doc, cfg_err, cfg_io, cfg_train, cfg_test>>
  /\ UNCHANGED notCfg

\* classifier = config.get('classifier', 'logistic') and its check
CfgCheckClassifier ==
  /\ cfg_pc = "parsed"
  /\ IF ClassifierRejected(ConfigGet(cfg_doc.classifier, "logistic"))
       THEN cfg_pc' = "config_error" /\ cfg_err' = "classifier"
       ELSE cfg_pc' = "classifier_ok" /\ UNCHANGED cfg_err
  /\ UNCHANGED <<cfg_doc, cfg_io, cfg_train, cfg_test>>
  /\ UNCHANGED notCfg

\* task_name = config.get('task', 'sad') and its check
CfgCheckTask ==
  /\ cfg_pc = "classifier_ok"
  /\ IF TaskRejected(ConfigGet(cfg_doc.task, "sad"))
       THEN cfg_pc' = "config_error" /\ cfg_err' = "task"
       ELSE cfg_pc' = "load_train" /\ UNCHANGED cfg_err
  /\ UNCHANGED <<cfg_doc, cfg_io, cfg_train, cfg_test>>
  /\ UNCHANGED notCfg

\* One iteration of _load_dsets(config['train_data'])
CfgLoadTrain ==
  /\ cfg_pc = "load_train"
  /\ Len(cfg_train) < Len(cfg_doc.train_data)
  /\ LET name == cfg_doc.train_data[Len(cfg_train) + 1]
     IN  /\ \E io \in DsetIO :
              cfg_io' = cfg_io \cup {<<kind, "train", name>> : kind \in io}
         /\ cfg_train' = Append(cfg_train, name)
  /\ UNCHANGED <<cfg_doc, cfg_pc, cfg_err, cfg_test>>
  /\ UNCHANGED notCfg

\* train_dsets = _load_dsets(...) returns
CfgTrainLoaded ==
  /\ cfg_pc = "load_train"
  /\ Len(cfg_train) = Len(cfg_doc.train_data)
  /\ cfg_pc' = "load_test"
  /\ UNCHANGED <<cfg_doc, cfg_err, cfg_io, cfg_train, cfg_test>>
  /\ UNCHANGED notCfg

\* One iteration of _load_dsets(config['test_data'], test=True)
CfgLoadTest ==
  /\ cfg_pc = "load_test"
  /\ Len(cfg_test) < Len(cfg_doc.test_data)
  /\ LET name == cfg_doc.test_data[Len(cfg_test) + 1]
     IN  /\ \E io \in DsetIO :
              cfg_io' = cfg_io \cup {<<kind, "test", name>> : kind \in io}
         /\ cfg_test' = Append(cfg_test, name)
  /\ UNCHANGED <<cfg_doc, cfg_pc, cfg_err, cfg_train>>
  /\ UNCHANGED notCfg

\* return task, train_dsets, test_dsets
CfgReturn ==
  /\ cfg_pc = "load_test"
  /\ Len(cfg_test) = Len(cfg_doc.test_data)
  /\ cfg_pc' = "returned"
  /\ UNCHANGED <<cfg_doc, cfg_err, cfg_io, cfg_train, cfg_test>>
  /\ UNCHANGED notCfg

\* main goes on to its training loop (print('Training classifiers...'))
CfgMainTrains ==
  /\ cfg_pc = "returned"
  /\ cfg_pc' = "training"
  /\ UNCHANGED <<cfg_doc, cfg_err, cfg_io, cfg_train, cfg_test>>
  /\ UNCHANGED notCfg

----------------------------------------------------------------------------
(* get_feats_targets and the per-utterance job _get_feats_targets *)

\* An utterance of the model: [uri, n, ok].  Its .npy file holds n frames of
\* one feature, every value different from every other value of the
\* partition; its .lab file holds one target segment that depends on the URI;
\* ok is whether np.load and read_csv succeed on its files.
UttFeats(u) == [d |-> 1, rows |-> [r \in 1..u.n |-> <<10 * u.uri + r>>]]

UttLabRows(u) == << <<u.uri - 1, u.uri, "aa">> >>

Utts(uris, frames) == [uri : uris, n : frames, ok : BOOLEAN]

\* Lists of utterances with different URIs (load_utterances builds the list
\* from a set of URIs).
UttLists(uris, frames) ==
  {l \in SeqsUpTo(Utts(uris, frames), Cardinality(uris)) :
     \A a, b \in 1..Len(l) : a # b => l[a].uri # l[b].uri}

NoResult == [st |-> "none", feats |-> [d |-> 0, rows |-> <<>>], targets |-> <<>>]

ErrorResult == [st |-> "error", feats |-> [d |-> 0, rows |-> <<>>], targets |-> <<>>]

\* feats = add_context(np.load(utt.feats_path), context_size)
JobFeats(u, w) == AddContext(UttFeats(u), w)

\* _get_feats_targets raises: a file cannot be loaded, or add_context raises.
JobRaises(u, w) == ~u.ok \/ NpPadRaises(UttFeats(u), w)

\* _get_feats_targets(utt, step, context_size, target_labels)
JobResult(u, step, w, target_labels) ==
  IF JobRaises(u, w) THEN ErrorResult
  ELSE [st |-> "ok",
        feats |-> JobFeats(u, w),
        targets |-> Targets(UttLabRows(u), NRows(JobFeats(u, w)), step, target_labels)]

\* A gather bug: results are kept in the order the workers finish.
StoreInFinishOrder(res, j, v) ==
  LET free == CHOOSE k \in 1..Len(res) :
                /\ res[k].st = "none"
                /\ \A m \in 1..(k - 1) : res[m].st # "none"
  IN  [res EXCEPT ![free] = v]

\* Parallel()(...) returns the results in the order of the submitted jobs.
StoreResult(res, j, v) == [res EXCEPT ![j] = v]

\* A swallowed exception: a failed job is ignored.
NeverFails(res) == FALSE

\* Parallel()(...) re-raises the exception of a failed job.
ExtractionFails(res) == \E j \in 1..Len(res) : res[j].st = "error"

RECURSIVE ConcatFeatRows(_, _)
ConcatFeatRows(res, k) ==
  IF k > Len(res) THEN <<>> ELSE res[k].feats.rows \o ConcatFeatRows(res, k + 1)

RECURSIVE ConcatTargets(_, _)
ConcatTargets(res, k) ==
  IF k > Len(res) THEN <<>> ELSE res[k].targets \o ConcatTargets(res, k + 1)

\* np.concatenate(feats, axis=0).astype(np.float32): the values of the model
\* are small integers, which float32 holds exactly.
ConcatFeats(res) == [d |-> res[1].feats.d, rows |-> ConcatFeatRows(res, 1)]

ExUttLists == UttLists(1..MaxUtts, 0..MaxUttFrames)

ExStart(utts, step, ctx, njobs) ==
  /\ ex_utts' = utts
  /\ ex_step' = step
  /\ ex_ctx' = ctx
  /\ ex_njobs' = njobs
  /\ ex_pc' = "call"
  /\ ex_next' = 1
  /\ ex_running' = {}
  /\ ex_res' = [k \in 1..Len(utts) |-> NoResult]
  /\ ex_tries' = [k \in 1..Len(utts) |-> 0]
  /\ ex_order' = <<>>
  /\ ex_feats' = [d |-> 0, rows |-> <<>>]
  /\ ex_targets' = <<>>
  /\ ex_call' = ex_call + 1
  /\ UNCHANGED ex_failed

ExInit ==
  /\ ex_utts \in ExUttLists
  /\ ex_step = 1
  /\ ex_ctx \in CtxSizes
  /\ ex_njobs \in 1..MaxJobs
  /\ ex_pc = "call"
  /\ ex_next = 1
  /\ ex_running = {}
  /\ ex_res = [k \in 1..Len(ex_utts) |-> NoResult]
  /\ ex_tries = [k \in 1..Len(ex_utts) |-> 0]
  /\ ex_order = <<>>
  /\ ex_feats = [d |-> 0, rows |-> <<>>]
  /\ ex_targets = <<>>
  /\ ex_call = 1
  /\ ex_failed = 0

ExIdle ==
  /\ ex_utts = <<>>
  /\ ex_step = 1
  /\ ex_ctx = 0
  /\ ex_njobs = 1
  /\ ex_pc = "idle"
  /\ ex_next = 1
  /\ ex_running = {}
  /\ ex_res = <<>>
  /\ ex_tries = <<>>
  /\ ex_order = <<>>
  /\ ex_feats = [d |-> 0, rows |-> <<>>]
  /\ ex_targets = <<>>
  /\ ex_call = 0
  /\ ex_failed = 0

\* with parallel_backend('multiprocessing', n_jobs=n_jobs): ... Parallel()(...)
ExEnterPool ==
  /\ ex_pc = "call"
  /\ ex_pc' = "running"
  /\ UNCHANGED <<ex_utts, ex_step, ex_ctx, ex_njobs, ex_next, ex_running, ex_res,
                 ex_tries, ex_order, ex_feats, ex_targets, ex_call, ex_failed>>
  /\ UNCHANGED notEx

\* joblib hands the next job to a free worker.  With one worker the jobs run
\* in the calling process, and nothing runs after a job has raised.
ExDispatch ==
  /\ ex_pc = "running"
  /\ ex_next <= Len(ex_utts)
  /\ Cardinality(ex_running) < ex_njobs
  /\ (ex_njobs = 1 => ~ExtractionFails(ex_res))
  /\ ex_running' = ex_running \cup {ex_next}
  /\ ex_tries' = [ex_tries EXCEPT ![ex_next] = @ + 1]
  /\ ex_next' = ex_next + 1
  /\ UNCHANGED <<ex_utts, ex_step, ex_ctx, ex_njobs, ex_pc, ex_res, ex_order,
                 ex_feats, ex_targets, ex_call, ex_failed>>
  /\ UNCHANGED notEx

\* A worker finishes its job: any running job may be the next to finish.
ExFinish ==
  /\ ex_pc = "running"
  /\ \E j \in ex_running :
       LET v == JobResult(ex_utts[j], ex_step, ex_ctx, TARGET_LABELS)
       IN  /\ ex_res' = StoreResult(ex_res, j, v)
           /\ ex_running' = ex_running \ {j}
           /\ ex_order' = Append(ex_order, j)
           /\ ex_failed' = IF v.st = "error" THEN ex_call ELSE ex_failed
  /\ UNCHANGED <<ex_utts, ex_step, ex_ctx, ex_njobs, ex_pc, ex_next, ex_tries,
                 ex_feats, ex_targets, ex_call>>
  /\ UNCHANGED notEx

\* The exception of a failed job leaves Parallel()(...) and get_feats_targets;
\* the pool is torn down with whatever was still running.
ExRaise ==
  /\ ex_pc = "running"
  /\ ExtractionFails(ex_res)
  /\ ex_pc' = "raised"
  /\ ex_running' = {}
  /\ UNCHANGED <<ex_utts, ex_step, ex_ctx, ex_njobs, ex_next, ex_res, ex_tries,
                 ex_order, ex_feats, ex_targets, ex_call, ex_failed>>
  /\ UNCHANGED notEx

\* All jobs are done: feats, targets = zip(*res), the two np.concatenate, return.
\* zip(*res) of an empty res cannot be unpacked into two names: ValueError.
ExJoin ==
  /\ ex_pc = "running"
  /\ ex_next > Len(ex_utts)
  /\ ex_running = {}
  /\ ~ExtractionFails(ex_res)
  /\ IF Len(ex_res) = 0
       THEN /\ ex_pc' = "raised"
            /\ UNCHANGED <<ex_feats, ex_targets>>
       ELSE /\ ex_pc' = "returned"
            /\ ex_feats' = ConcatFeats(ex_res)
            /\ ex_targets' = ConcatTargets(ex_res, 1)
  /\ UNCHANGED <<ex_utts, ex_step, ex_ctx, ex_njobs, ex_next, ex_running, ex_res,
                 ex_tries, ex_order, ex_call, ex_failed>>
  /\ UNCHANGED notEx

----------------------------------------------------------------------------
(* main *)

NameRank == [n \in {"A", "B", "C"} |-> CASE n = "A" -> 1 [] n = "B" -> 2 [] n = "C" -> 3]

FirstName(S) == CHOOSE a \in S : \A b \in S : NameRank[a] <= NameRank[b]

\* sorted(models)
RECURSIVE SortedNames(_)
SortedNames(S) ==
  IF S = {} THEN <<>> ELSE <<FirstName(S)>> \o SortedNames(S \ {FirstName(S)})

\* A bug: test_data = {dset.name: ...} rebinds the dictionary in every iteration.
TestDataRebound(test_data, name) == <<name>>

\* test_data[dset.name] = {...}: the names of a mapping differ, so this adds a key.
TestDataPut(test_data, name) == Append(test_data, name)

\* The utterances of a partition in a run of main: one frame each, URIs 1..k.
MainUttLists ==
  {l \in UttLists(1..MaxUtts, {1}) : \A k \in 1..Len(l) : l[k].uri = k}

MInit ==
  /\ m_train \in TrainNameSeqs
  /\ m_test \in TestNameSeqs
  /\ m_njobs \in 1..MaxJobs
  /\ m_ctx \in CtxSizes
  /\ m_pc = "train_loop"
  /\ m_i = 0
  /\ m_models = {}
  /\ m_test_data = <<>>
  /\ m_sorted = <<>>
  /\ m_si = 1
  /\ m_sj = 1
  /\ m_records = <<>>
  /\ m_printed = FALSE

MIdle ==
  /\ m_train = <<>>
  /\ m_test = <<>>
  /\ m_njobs = 1
  /\ m_ctx = 0
  /\ m_pc = "idle"
  /\ m_i = 0
  /\ m_models = {}
  /\ m_test_data = <<>>
  /\ m_sorted = <<>>
  /\ m_si = 1
  /\ m_sj = 1
  /\ m_records = <<>>
  /\ m_printed = FALSE

\* for dset in train_dsets: get_feats_targets(dset.utterances, ...) is called.
\* The utterances of the partition are drawn here, where they are first used.
MainTrainCall ==
  /\ m_pc = "train_loop"
  /\ m_i < Len(m_train)
  /\ m_pc' = "train_extract"
  /\ \E utts \in MainUttLists : ExStart(utts, 1, m_ctx, m_njobs)
  /\ UNCHANGED <<m_train, m_test, m_njobs, m_ctx, m_i, m_models, m_test_data,
                 m_sorted, m_si, m_sj, m_records, m_printed>>
  /\ UNCHANGED notExM

\* The rest of the loop body: class weights, get_classifier, clf.fit (which may
\* raise), models[dset.name] = clf.
MainTrainFit ==
  /\ m_pc = "train_extract"
  /\ ex_pc = "returned"
  /\ \E fitted \in BOOLEAN :
       IF fitted
         THEN /\ m_models' = m_models \cup {m_train[m_i + 1]}
              /\ m_i' = m_i + 1
              /\ m_pc' = "train_loop"
         ELSE /\ m_pc' = "aborted"
              /\ UNCHANGED <<m_models, m_i>>
  /\ UNCHANGED <<m_train, m_test, m_njobs, m_ctx, m_test_data, m_sorted, m_si,
                 m_sj, m_records, m_printed>>
  /\ UNCHANGED exVars /\ UNCHANGED notExM

\* get_feats_targets raised: main catches nothing, the run ends.
MainAbort ==
  /\ m_pc \in {"train_extract", "test_extract"}
  /\ ex_pc = "raised"
  /\ m_pc' = "aborted"
  /\ UNCHANGED <<m_train, m_test, m_njobs, m_ctx, m_i, m_models, m_test_data,
                 m_sorted, m_si, m_sj, m_records, m_printed>>
  /\ UNCHANGED exVars /\ UNCHANGED notExM

\* print('Testing...'); test_data = {}
MainTrainDone ==
  /\ m_pc = "train_loop"
  /\ m_i = Len(m_train)
  /\ m_pc' = "test_loop"
  /\ m_i' = 0
  /\ m_test_data' = <<>>
  /\ UNCHANGED <<m_train, m_test, m_njobs, m_ctx, m_models, m_sorted, m_si, m_sj,
                 m_records, m_printed>>
  /\ UNCHANGED exVars /\ UNCHANGED notExM

\* for dset in test_dsets: get_feats_targets(...) is called
MainTestCall ==
  /\ m_pc = "test_loop"
  /\ m_i < Len(m_test)
  /\ m_pc' = "test_extract"
  /\ \E utts \in MainUttLists : ExStart(utts, 1, m_ctx, m_njobs)
  /\ UNCHANGED <<m_train, m_test, m_njobs, m_ctx, m_i, m_models, m_test_data,
                 m_sorted, m_si, m_sj, m_records, m_printed>>
  /\ UNCHANGED notExM

\* test_data[dset.name] = {'feats': feats, 'targets': targets}
MainTestStore ==
  /\ m_pc = "test_extract"
  /\ ex_pc = "returned"
  /\ m_test_data' = TestDataPut(m_test_data, m_test[m_i + 1])
  /\ m_i' = m_i + 1
  /\ m_pc' = "test_loop"
  /\ UNCHANGED <<m_train, m_test, m_njobs, m_ctx, m_models, m_sorted, m_si, m_sj,
                 m_records, m_printed>>
  /\ UNCHANGED exVars /\ UNCHANGED notExM

\* records = []; for train_dset_name in sorted(models):
MainTestDone ==
  /\ m_pc = "test_loop"
  /\ m_i = Len(m_test)
  /\ m_pc' = "score"
  /\ m_sorted' = SortedNames(m_models)
  /\ m_si' = 1
  /\ m_sj' = 1
  /\ m_records' = <<>>
  /\ UNCHANGED <<m_train, m_test, m_njobs, m_ctx, m_i, m_models, m_test_data,
                 m_printed>>
  /\ UNCHANGED exVars /\ UNCHANGED notExM

\* One iteration of "for test_dset_name in test_data": predict, the metrics,
\* records.append({...})
MainScore ==
  /\ m_pc = "score"
  /\ m_si <= Len(m_sorted)
  /\ m_sj <= Len(m_test_data)
  /\ m_records' = Append(m_records, <<m_sorted[m_si], m_test_data[m_sj]>>)
  /\ m_sj' = m_sj + 1
  /\ UNCHANGED <<m_train, m_test, m_njobs, m_ctx, m_pc, m_i, m_models,
                 m_test_data, m_sorted, m_si, m_printed>>
  /\ UNCHANGED exVars /\ UNCHANGED notExM

\* The inner loop is exhausted: the next classifier.
MainScoreNext ==
  /\ m_pc = "score"
  /\ m_si <= Len(m_sorted)
  /\ m_sj > Len(m_test_data)
  /\ m_si' = m_si + 1
  /\ m_sj' = 1
  /\ UNCHANGED <<m_train, m_test, m_njobs, m_ctx, m_pc, m_i, m_models,
                 m_test_data, m_sorted, m_records, m_printed>>
  /\ UNCHANGED exVars /\ UNCHANGED notExM

\* scores_df = pd.DataFrame(records); print(scores_df)
MainPrint ==
  /\ m_pc = "score"
  /\ m_si > Len(m_sorted)
  /\ m_pc' = "printed"
  /\ m_printed' = TRUE
  /\ UNCHANGED <<m_train, m_test, m_njobs, m_ctx, m_i, m_models, m_test_data,
                 m_sorted, m_si, m_sj, m_records>>
  /\ UNCHANGED exVars /\ UNCHANGED notExM

----------------------------------------------------------------------------
(* Properties of add_context *)

ShapeOk(out, in, w) ==
  /\ NRows(out) = NRows(in)
  /\ out.d = in.d * (2 * w + 1)
  /\ \A j \in 1..NRows(out) : Len(out.rows[j]) = out.d

\* C7 (as stated): for every (n, d) array and every w >= 0, add_context
\* returns an array with n rows and d * (2w + 1) columns, and returns its
\* input unchanged when w = 0.  A call that has ended has therefore returned,
\* with that shape.
C7_ReturnsShape ==
  ac_pc \in {"returned", "raised"} =>
    /\ ac_pc = "returned"
    /\ ShapeOk(ac_feats, ac_in, ac_win)
    /\ (ac_win = 0 => ac_feats = ac_in)

\* The offset of the k-th column block (k = 1..2w+1): np.roll by ind = k-w-1
\* brings row j - ind to row j.
BlockOffset(w, k) == w + 1 - k

Block(row, d, k) == SubSeq(row, (k - 1) * d + 1, k * d)

\* C8: for n >= 1 and w >= 1 every column block of output row j is a copy of
\* input row clamp(j + o, first, last), one block per offset o in [-w, +w]
\* (never a zero row, never a row wrapped around from the other end), and a
\* 3 x 2 input with w = 1 gives a 3 x 6 output.
C8_BlocksAreClampedRows ==
  (ac_pc = "returned" /\ ac_win >= 1 /\ NRows(ac_in) >= 1) =>
    /\ {BlockOffset(ac_win, k) : k \in 1..(2 * ac_win + 1)} = (-ac_win)..ac_win
    /\ \A j \in 1..NRows(ac_in) : \A k \in 1..(2 * ac_win + 1) :
         Block(ac_feats.rows[j], ac_in.d, k)
           = ac_in.rows[Clamp(j + BlockOffset(ac_win, k), 1, NRows(ac_in))]
    /\ (ac_win = 1 /\ NRows(ac_in) = 3 /\ ac_in.d = 2 =>
          NRows(ac_feats) = 3 /\ ac_feats.d = 6)

\* A 3 x 2 input with three different rows has been given one frame of context.
C8_Witness ==
  /\ ac_pc = "returned"
  /\ ac_win = 1
  /\ ac_in = [d |-> 2, rows |-> <<<<0, 1>>, <<1, 1>>, <<1, 0>>>>]
  /\ ac_feats.rows[1] = <<1, 1, 0, 1, 0, 1>>
  /\ ac_feats.rows[3] = <<1, 0, 1, 0, 1, 1>>

----------------------------------------------------------------------------
(* Properties of the target marking *)

\* The first frame index whose time is at or after v, n if there is none.
FirstIndexAtOrAfter(n, step, v) ==
  IF \E i \in 0..(n - 1) : i * step >= v
    THEN CHOOSE i \in 0..(n - 1) :
           /\ i * step >= v
           /\ \A j \in 0..(n - 1) : j * step >= v => i <= j
    ELSE n

InMarkedRange(i, seg, n, step) ==
  /\ FirstIndexAtOrAfter(n, step, seg[1]) <= i
  /\ i <= Min2(FirstIndexAtOrAfter(n, step, seg[2]), n - 1)

\* C6: frame i is 1 exactly when bi <= i <= min(ei, n-1) for some merged
\* interval, bi and ei being the first indices with t >= start and t >= end
\* (n if none); the interval (0.1, 0.4) over frame times 0.0 .. 0.4 (ticks of
\* 0.1 s) gives [0, 1, 1, 1, 1].
C6_MarkedRangeInclusive ==
  lab_pc = "returned" =>
    /\ Len(lab_targets) = lab_n
    /\ \A i \in 0..(lab_n - 1) :
         lab_targets[i + 1] =
           IF \E k \in 1..Len(lab_tl) : InMarkedRange(i, lab_tl[k], lab_n, lab_step)
             THEN 1 ELSE 0
    /\ (lab_tl = <<<<1, 4>>>> /\ lab_n = 5 /\ lab_step = 1 =>
          lab_targets = <<0, 1, 1, 1, 1>>)

\* The scenario of the claim: sil / aa / sil rows would need three rows; the
\* single vowel row gives the same merged interval (0.1, 0.4).
C6_Witness ==
  /\ lab_pc = "returned"
  /\ lab_rows = <<<<1, 4, "aa">>>>
  /\ lab_n = 5
  /\ lab_step = 1
  /\ lab_targets = <<0, 1, 1, 1, 1>>

----------------------------------------------------------------------------
(* Properties of the class weights *)

\* C5 (as stated): for every target vector of a training partition the weight
\* vector has two nonnegative entries that sum to 1, and when the two class
\* frequencies differ the rarer class has the strictly greater weight.
C5_WeightsNormalised ==
  w_pc = "done" =>
    LET pos == Num(SumSeq(w_targets), Max2(Len(w_targets), 1))
        neg == Num(Max2(Len(w_targets), 1) - SumSeq(w_targets), Max2(Len(w_targets), 1))
    IN  /\ Len(w_weights) = 2
        /\ w_weights[1].k = "num" /\ w_weights[2].k = "num"
        /\ FAdd(w_weights[1], w_weights[2]) = Num(1, 1)
        /\ (FLess(pos, neg) => FLess(w_weights[1], w_weights[2]))
        /\ (FLess(neg, pos) => FLess(w_weights[2], w_weights[1]))

----------------------------------------------------------------------------
(* Properties of load_utterances *)

\* C3: the catalog holds a URI exactly when both of its files exist; a URI
\* missing either file is left out without an error, an all-missing list gives
\* an empty catalog, and a URI the list repeats appears once.
C3_CatalogIffBothFiles ==
  cat_pc = "returned" =>
    LET listed == {Strip(cat_lines[k]) : k \in 1..Len(cat_lines)}
        have   == {cat_utts[k] : k \in 1..Len(cat_utts)}
    IN  /\ have = {u \in listed : u \in cat_feats /\ u \in cat_phones}
        /\ Len(cat_utts) = Cardinality(have)
        /\ (listed \cap cat_feats \cap cat_phones = {} => cat_utts = <<>>)

\* The list names "a" (with blanks around it) and "b"; b has a feature file
\* and no label file, and only a is in the catalog.
C3_Witness ==
  /\ cat_pc = "returned"
  /\ cat_lines = <<<<" ", "a", "\n">>, <<"b">>>>
  /\ cat_feats = {<<"a">>, <<"b">>}
  /\ cat_phones = {<<"a">>}
  /\ cat_utts = <<<<"a">>>>

----------------------------------------------------------------------------
(* Properties of load_task_config *)

\* C2: a document whose classifier or task is not a valid name makes
\* load_task_config raise ConfigError before any data file is opened or probed
\* and before main starts training; the classifier is checked first.
C2_ConfigErrorBeforeIO ==
  LET c == IF cfg_doc.classifier = Absent THEN "logistic" ELSE cfg_doc.classifier
      t == IF cfg_doc.task = Absent THEN "sad" ELSE cfg_doc.task
  IN  /\ (c \notin {"logistic", "max_margin", "nnet"}
            \/ t \notin {"sad", "vowel", "sonorant", "fricative"}) =>
          /\ cfg_io = {}
          /\ cfg_train = <<>> /\ cfg_test = <<>>
          /\ cfg_pc \in {"idle", "call", "parsed", "classifier_ok", "config_error"}
          /\ (cfg_pc = "classifier_ok" => c \in {"logistic", "max_margin", "nnet"})
          /\ (cfg_pc = "config_error" =>
                cfg_err = IF c \notin {"logistic", "max_margin", "nnet"}
                            THEN "classifier" ELSE "task")
      /\ (cfg_pc = "config_error" => cfg_io = {})

\* The task check has raised for a document that names partitions to load.
C2_Witness ==
  /\ cfg_pc = "config_error"
  /\ cfg_err = "task"
  /\ cfg_doc.classifier = "nnet"
  /\ cfg_doc.train_data = <<"A", "B">>
  /\ cfg_doc.test_data = <<"C">>

----------------------------------------------------------------------------
(* Properties of get_feats_targets *)

\* What a single worker produces, one utterance after the other in list order.
RECURSIVE SequentialFeatRows(_, _, _, _)
SequentialFeatRows(utts, k, step, w) ==
  IF k > Len(utts) THEN <<>>
  ELSE JobResult(utts[k], step, w, TARGET_LABELS).feats.rows
         \o SequentialFeatRows(utts, k + 1, step, w)

RECURSIVE SequentialTargets(_, _, _, _)
SequentialTargets(utts, k, step, w) ==
  IF k > Len(utts) THEN <<>>
  ELSE JobResult(utts[k], step, w, TARGET_LABELS).targets
         \o SequentialTargets(utts, k + 1, step, w)

\* C4: whatever the number of workers and the order in which they finish,
\* get_feats_targets concatenates only when every job is done, and the feature
\* matrix and the target vector are the per-utterance blocks in the order of
\* the utterance list: the result of one worker running the jobs in order.
C4_JoinInListOrder ==
  ex_pc = "returned" =>
    /\ ex_running = {}
    /\ Len(ex_order) = Len(ex_utts)
    /\ \A j \in 1..Len(ex_utts) : ex_res[j].st = "ok"
    /\ ex_feats.rows = SequentialFeatRows(ex_utts, 1, ex_step, ex_ctx)
    /\ ex_targets = SequentialTargets(ex_utts, 1, ex_step, ex_ctx)

\* Two workers, the second job finished first.
C4_Witness ==
  /\ ex_pc = "returned"
  /\ ex_njobs = 2
  /\ ex_order = <<2, 1>>
  /\ ex_ctx = 0
  /\ ex_step = 1
  /\ ex_utts[1].uri = 2
  /\ ex_feats.rows = << <<21>>, <<11>>, <<12>> >>
  /\ ex_targets = <<0, 1, 1>>

\* C10: the targets of an utterance have one entry per frame: as many as the
\* context-augmented features have rows, which is the frame count of the
\* loaded array; so the matrix of a non-empty partition has as many rows as
\* its target vector has entries.
C10_OneTargetPerFrame ==
  /\ \A j \in 1..Len(ex_res) :
       ex_res[j].st = "ok" =>
         /\ Len(ex_res[j].targets) = NRows(ex_res[j].feats)
         /\ NRows(ex_res[j].feats) = ex_utts[j].n
  /\ (ex_pc = "returned" => NRows(ex_feats) = Len(ex_targets))

\* A partition of a 2-frame and a 1-frame utterance, with one frame of context.
C10_Witness ==
  /\ ex_pc = "returned"
  /\ ex_ctx = 1
  /\ Len(ex_utts) = 2
  /\ ex_utts[1].n = 2
  /\ ex_utts[2].n = 1
  /\ NRows(ex_feats) = 3
  /\ Len(ex_targets) = 3
  /\ ex_feats.d = 3

----------------------------------------------------------------------------
(* Properties of main *)

\* C1: a run of main that prints its score table has one record for every
\* (train, test) pair of the config, m * n in all, and no pair twice.
C1_ScoreTableIsCrossProduct ==
  m_pc = "printed" =>
    LET keys == {m_records[k] : k \in 1..Len(m_records)}
    IN  /\ Len(m_records) = Len(m_train) * Len(m_test)
        /\ Cardinality(keys) = Len(m_records)
        /\ keys = {<<m_train[a], m_test[b]>> : a \in 1..Len(m_train), b \in 1..Len(m_test)}

\* Two training partitions and two test partitions, one name on both sides.
C1_Witness ==
  /\ m_pc = "printed"
  /\ m_train = <<"B", "A">>
  /\ m_test = <<"C", "A">>
  /\ m_records = << <<"A", "C">>, <<"A", "A">>, <<"B", "C">>, <<"B", "A">> >>

\* C9: once the extraction of an utterance has failed, get_feats_targets
\* returns no matrix for that partition, the job is not run again, no later
\* partition is extracted, nothing is stored for the partition, and no score
\* record is made or printed: the run is in that extraction or aborted.
C9_FailureAbortsRun ==
  /\ \A j \in 1..Len(ex_tries) : ex_tries[j] <= 1
  /\ ex_failed # 0 =>
       /\ ex_call = ex_failed
       /\ ex_pc \in {"running", "raised"}
       /\ ex_feats.rows = <<>> /\ ex_targets = <<>>
       /\ m_pc \in {"train_extract", "test_extract", "aborted"}
       /\ (ex_pc = "raised" => ex_running = {})
       /\ Cardinality(m_models) + Len(m_test_data) = ex_failed - 1
       /\ m_records = <<>>
       /\ ~m_printed

\* The second partition's first job failed while its second job succeeded,
\* and the run is aborted.
C9_Witness ==
  /\ m_pc = "aborted"
  /\ ex_failed = 2
  /\ m_njobs = 2
  /\ Len(ex_res) = 2
  /\ ex_res[1].st = "error"
  /\ ex_res[2].st = "ok"
  /\ m_models # {}

----------------------------------------------------------------------------
(* Specifications *)

InitCtx == AcInit /\ LabIdle /\ WIdle /\ CatIdle /\ CfgIdle /\ ExIdle /\ MIdle
NextCtx == AcReturnInput \/ AcPad \/ AcRollConcat \/ AcTrim
SpecCtx == InitCtx /\ [][NextCtx]_vars

InitLabel == LabInit /\ AcIdle /\ WIdle /\ CatIdle /\ CfgIdle /\ ExIdle /\ MIdle
NextLabel == LabTimeline \/ LabMark \/ LabReturn
SpecLabel == InitLabel /\ [][NextLabel]_vars

InitWeights == WInit /\ AcIdle /\ LabIdle /\ CatIdle /\ CfgIdle /\ ExIdle /\ MIdle
NextWeights == WMean \/ WArray \/ WInvert \/ WNormalise
SpecWeights == InitWeights /\ [][NextWeights]_vars

InitCat == CatInit /\ AcIdle /\ LabIdle /\ WIdle /\ CfgIdle /\ ExIdle /\ MIdle
NextCat == CatReadUris \/ CatVisit \/ CatReturn
SpecCat == InitCat /\ [][NextCat]_vars

InitCfg == CfgInit /\ AcIdle /\ LabIdle /\ WIdle /\ CatIdle /\ ExIdle /\ MIdle
NextCfg ==
  \/ CfgParse \/ CfgCheckClassifier \/ CfgCheckTask \/ CfgLoadTrain
  \/ CfgTrainLoaded \/ CfgLoadTest \/ CfgReturn \/ CfgMainTrains
SpecCfg == InitCfg /\ [][NextCfg]_vars

InitExtract == ExInit /\ AcIdle /\ LabIdle /\ WIdle /\ CatIdle /\ CfgIdle /\ MIdle
NextExtract == ExEnterPool \/ ExDispatch \/ ExFinish \/ ExRaise \/ ExJoin
SpecExtract == InitExtract /\ [][NextExtract]_vars

Init == MInit /\ ExIdle /\ AcIdle /\ LabIdle /\ WIdle /\ CatIdle /\ CfgIdle
Next ==
  \/ MainTrainCall \/ MainTrainFit \/ MainAbort \/ MainTrainDone
  \/ MainTestCall \/ MainTestStore \/ MainTestDone
  \/ MainScore \/ MainScoreNext \/ MainPrint
  \/ ExEnterPool \/ ExDispatch \/ ExFinish \/ ExRaise \/ ExJoin
Spec == Init /\ [][Next]_vars

====
